---- MODULE Spec2Model ----
(***************************************************************************)
(* Model of the scoreboard event detector of the cricket highlight         *)
(* generator (backend/scripts/ocr_engine.py): ScoreState, the median       *)
(* smoothing, the gates of EventDetector.detect and the event              *)
(* classification.  Timestamps are whole seconds.                          *)
(***************************************************************************)
EXTENDS Integers, Sequences, FiniteSets, TLC

(* ---------------- program constants ---------------- *)
HISTORY_SIZE == 5
COOLDOWN_SECONDS == 10
MAX_RUNS_PER_BALL == 8
RESET_PERSISTENCE_SECONDS == 60
INITIAL_EVENT_TIME == 0 - 999
MAX_PLAUSIBLE_RUNS == 400
MAX_PLAUSIBLE_WICKETS == 10

(* ---------------- bounds of the exploration ---------------- *)
MaxTime == 10          \* last timestamp of a free stream
MaxEvents == 2         \* a free stream ends once this many events were collected
MaxScriptTime == 12    \* last timestamp of a short scripted stream
MaxResetTime == 62     \* last timestamp of a long scripted stream
MaxOscTime == 3        \* last timestamp of an oscillating stream
MaxFed == 6            \* the per-phase observation counter saturates here
TotalFrames == 40      \* number of frames of the video
MaxFail == 2           \* sampled frames of the video whose OCR yields no score
MaxClipEvents == 3     \* longest list of events given to extract_clips

(* ---------------- values ---------------- *)
ScoreState(r, w) == [runs |-> r, wickets |-> w]
NoScore == [runs |-> 0 - 1000, wickets |-> 0 - 1000]
NoOvers == <<0 - 1, 0 - 1>>
NoEvent == [type |-> "NONE", timestamp |-> 0, score_before |-> "", score_after |-> ""]
NoPath == ""
NoFiles == [p \in {} |-> <<>>]
NoArguments == [function |-> "none"]
NoResult == [function |-> "none"]
NoJob == [status |-> "none", retry_count |-> 0]

\* a __repr__ that forgets the wickets
ReprRunsOnly(s) == ToString(s.runs)

\* ScoreState.__repr__: "runs/wickets", or the bare runs in runs-only mode
Repr(s) == IF s.wickets >= 0
           THEN ToString(s.runs) \o "/" \o ToString(s.wickets)
           ELSE ToString(s.runs)

\* ScoreState.__eq__: never equal to None, else field by field
ScoreEq(a, b) == IF b = NoScore THEN FALSE
                 ELSE a.runs = b.runs /\ a.wickets = b.wickets

VARIABLES
  runs_history,          \* deque(maxlen = HISTORY_SIZE) of runs
  wickets_history,       \* deque(maxlen = HISTORY_SIZE) of wickets
  last_stable_score,     \* baseline, NoScore when unset
  last_over,             \* last overs that passed the new-ball gate
  last_event_time,       \* timestamp of the last emitted event
  reset_candidate,       \* lower score waiting for persistence
  reset_candidate_time,  \* when the candidate was first seen
  ret,                   \* value returned by the last call of detect
  call,                  \* the last call: the baseline before it and the branch it took
  events,                \* events collected by the caller, in emission order
  now,                   \* timestamp of the last observation
  stream,                \* the scores of the stream that is being fed
  phase,                 \* position of a scripted stream (0: free stream)
  fed,                   \* observations fed in each phase so far
  started,               \* timestamp of the first observation of the current phase
  frame_count,           \* process_video: index of the frame that is read next
  processed,             \* process_video: number of sampled frames so far
  last_valid_score,      \* process_video: the last score the OCR yielded
  candidate_score,       \* process_video: score waiting for confirmation
  candidate_count,       \* process_video: consecutive frames that showed it
  stats,                 \* process_video: counters of the OCR outcomes
  pc,                    \* position of the run ("frames", "returned", "clips", ...)
  interrupted,           \* a KeyboardInterrupt ended the frame loop
  args,                  \* padding and switches of the run
  clip_index,            \* extract_clips: index of the event that comes next
  clips,                 \* extract_clips: paths of the clips extracted so far
  requests,              \* invocations of the media tool, in order
  files,                 \* output files on disk: path -> content
  supercut,              \* what create_supercut returned
  previous,              \* what the earlier runs over the same video produced
  arguments,             \* arguments of a function that is called on its own
  result,                \* what that function returned
  job,                   \* the HighlightJob row of the video
  queued,                \* background tasks added and not yet started
  executions,            \* run_ocr_processing calls in progress
  responses,             \* what the jobs routes answered, in order
  video_status,          \* status of the Video row
  highlights             \* the HighlightEvent rows stored for the video

detector == <<runs_history, wickets_history, last_stable_score, last_over,
              last_event_time, reset_candidate, reset_candidate_time>>
vars == <<runs_history, wickets_history, last_stable_score, last_over,
          last_event_time, reset_candidate, reset_candidate_time,
          ret, call, events, now, stream, phase, fed, started,
          frame_count, processed, last_valid_score, candidate_score,
          candidate_count, stats, pc, interrupted, args, clip_index, clips,
          requests, files, supercut, previous, arguments, result, job, queued,
          executions, responses, video_status, highlights>>
pure == <<arguments, result>>
service == <<job, queued, executions, responses, video_status, highlights>>
others == <<previous, pure, service>>
video == <<frame_count, processed, last_valid_score, candidate_score,
           candidate_count, stats>>
assembler == <<pc, interrupted, args, clip_index, clips, requests, files,
               supercut>>

(* ---------------- helpers ---------------- *)
RECURSIVE InsertSorted(_, _)
InsertSorted(s, x) ==
  IF s = <<>> THEN <<x>>
  ELSE IF x <= Head(s) THEN <<x>> \o s
  ELSE <<Head(s)>> \o InsertSorted(Tail(s), x)

RECURSIVE Sorted(_)
Sorted(s) == IF s = <<>> THEN <<>> ELSE InsertSorted(Sorted(Tail(s)), Head(s))

\* deque.append with maxlen: the oldest entry falls out
DequeAppend(q, x) ==
  IF Len(q) >= HISTORY_SIZE THEN Append(Tail(q), x) ELSE Append(q, x)

\* a filter that lets the runs-only marker through
IsValidWicketAny(w) == TRUE

\* w >= 0: the wickets that count for the median
IsValidWicket(w) == w >= 0

\* a median that takes the upper middle of the sorted runs
MedianScoreHigh(rh, wh) ==
  IF Len(rh) < HISTORY_SIZE THEN NoScore
  ELSE LET median_runs == Sorted(rh)[(HISTORY_SIZE \div 2) + 2]
           valid_wickets == SelectSeq(wh, IsValidWicket)
           median_wickets == IF valid_wickets # <<>>
                             THEN Sorted(valid_wickets)[(Len(valid_wickets) \div 2) + 1]
                             ELSE 0
       IN  ScoreState(median_runs, median_wickets)

\* a median that does not wait for a full history
MedianScoreEarly(rh, wh) ==
  IF Len(rh) < HISTORY_SIZE \div 2 THEN NoScore
  ELSE LET median_runs == Sorted(rh)[(Len(rh) \div 2) + 1]
           valid_wickets == SelectSeq(wh, IsValidWicket)
           median_wickets == IF valid_wickets # <<>>
                             THEN Sorted(valid_wickets)[(Len(valid_wickets) \div 2) + 1]
                             ELSE 0
       IN  ScoreState(median_runs, median_wickets)

\* _get_median_score over the given histories
MedianScore(rh, wh) ==
  IF Len(rh) < HISTORY_SIZE THEN NoScore
  ELSE LET median_runs == Sorted(rh)[(HISTORY_SIZE \div 2) + 1]
           valid_wickets == SelectSeq(wh, IsValidWicket)
           median_wickets == IF valid_wickets # <<>>
                             THEN Sorted(valid_wickets)[(Len(valid_wickets) \div 2) + 1]
                             ELSE 0
       IN  ScoreState(median_runs, median_wickets)

\* a plausibility check that already rejects the upper bound
IsPlausibleStrict(score) ==
  IF score.runs < 0 \/ score.runs >= MAX_PLAUSIBLE_RUNS THEN FALSE
  ELSE IF score.wickets >= 0 /\ score.wickets > MAX_PLAUSIBLE_WICKETS THEN FALSE
  ELSE TRUE

\* a plausibility check that forgets the bound of the wickets
IsPlausibleNoWicketBound(score) ==
  IF score.runs < 0 \/ score.runs > MAX_PLAUSIBLE_RUNS THEN FALSE
  ELSE TRUE

IsPlausible(score) ==
  IF score.runs < 0 \/ score.runs > MAX_PLAUSIBLE_RUNS THEN FALSE
  ELSE IF score.wickets >= 0 /\ score.wickets > MAX_PLAUSIBLE_WICKETS THEN FALSE
  ELSE TRUE

\* an event that does not carry the timestamp of its call
CreateEventUnstamped(event_type, old, new, timestamp) ==
  [type |-> event_type, timestamp |-> 0,
   score_before |-> Repr(old), score_after |-> Repr(new)]

CreateEvent(event_type, old, new, timestamp) ==
  [type |-> event_type, timestamp |-> timestamp,
   score_before |-> Repr(old), score_after |-> Repr(new)]

\* a wicket detection that accepts any rise of the wicket count
DetectWicketAnyRise(old, new, timestamp) ==
  IF old.wickets < 0 \/ new.wickets < 0 THEN NoEvent
  ELSE IF new.wickets - old.wickets >= 1
       THEN CreateEvent("WICKET", old, new, timestamp)
       ELSE NoEvent

DetectWicket(old, new, timestamp) ==
  IF old.wickets < 0 \/ new.wickets < 0 THEN NoEvent
  ELSE IF new.wickets - old.wickets = 1
       THEN CreateEvent("WICKET", old, new, timestamp)
       ELSE NoEvent

\* a boundary detection whose SIX is narrowed to 5 and 6 runs
DetectBoundaryNarrow(old, new, timestamp) ==
  LET runs_diff == new.runs - old.runs
  IN  IF runs_diff = 4 THEN CreateEvent("FOUR", old, new, timestamp)
      ELSE IF runs_diff \in {5, 6} THEN CreateEvent("SIX", old, new, timestamp)
      ELSE NoEvent

DetectBoundary(old, new, timestamp) ==
  LET runs_diff == new.runs - old.runs
  IN  IF runs_diff = 4 THEN CreateEvent("FOUR", old, new, timestamp)
      ELSE IF runs_diff \in {5, 6, 7} THEN CreateEvent("SIX", old, new, timestamp)
      ELSE NoEvent

\* a classification that looks at the runs first
ClassifyRunsFirst(old, new, timestamp) ==
  LET event == DetectBoundary(old, new, timestamp)
  IN  IF event # NoEvent THEN event ELSE DetectWicket(old, new, timestamp)

\* priority 1 wicket, priority 2 boundary
Classify(old, new, timestamp) ==
  LET event == DetectWicket(old, new, timestamp)
  IN  IF event # NoEvent THEN event ELSE DetectBoundary(old, new, timestamp)

\* a new-ball test that lets every ball through
ProgressedAlways(overs, last) == TRUE

\* a new-ball test that lets the same ball through
ProgressedOrSame(overs, last) ==
  overs[1] > last[1] \/ (overs[1] = last[1] /\ overs[2] >= last[2])

Progressed(overs, last) ==
  overs[1] > last[1] \/ (overs[1] = last[1] /\ overs[2] > last[2])

\* a detector without cooldown
InCooldownNever(timestamp, last_time) == FALSE

\* a cooldown of half the length
InCooldownShort(timestamp, last_time) ==
  timestamp - last_time < COOLDOWN_SECONDS \div 2

InCooldown(timestamp, last_time) == timestamp - last_time < COOLDOWN_SECONDS

\* a persistence test that already accepts at exactly the limit
ResetPersistedEarly(timestamp, candidate_time) ==
  timestamp - candidate_time >= RESET_PERSISTENCE_SECONDS

ResetPersisted(timestamp, candidate_time) ==
  timestamp - candidate_time > RESET_PERSISTENCE_SECONDS

\* a jump filter that does not look at the wickets
IsHugeJumpAnyWicket(runs_diff, wickets_diff) ==
  runs_diff > MAX_RUNS_PER_BALL

IsHugeJump(runs_diff, wickets_diff) ==
  runs_diff > MAX_RUNS_PER_BALL /\ wickets_diff # 1

(* ---------------- EventDetector ---------------- *)
InitDetector ==
  /\ last_event_time = INITIAL_EVENT_TIME
  /\ last_stable_score = NoScore
  /\ last_over = NoOvers
  /\ runs_history = <<>>
  /\ wickets_history = <<>>
  /\ reset_candidate = NoScore
  /\ reset_candidate_time = 0

Returns(score, timestamp, overs, branch, event) ==
  /\ ret' = event
  /\ call' = [before |-> last_stable_score, branch |-> branch]
  /\ events' = IF event # NoEvent THEN Append(events, event) ELSE events
  /\ now' = timestamp

AppendHistory(score) ==
  /\ runs_history' = DequeAppend(runs_history, score.runs)
  /\ wickets_history' = DequeAppend(wickets_history, score.wickets)

\* EventDetector.detect(score, timestamp, overs), called once
Detect(score, timestamp, overs) ==
  IF score = NoScore \/ ~IsPlausible(score)
  THEN /\ UNCHANGED detector
       /\ Returns(score, timestamp, overs, "ignored", NoEvent)
  ELSE IF overs # NoOvers /\ last_over # NoOvers /\ ~Progressed(overs, last_over)
  THEN /\ AppendHistory(score)
       /\ UNCHANGED <<last_stable_score, last_over, last_event_time,
                      reset_candidate, reset_candidate_time>>
       /\ Returns(score, timestamp, overs, "same_ball", NoEvent)
  ELSE
    /\ last_over' = IF overs # NoOvers THEN overs ELSE last_over
    /\ AppendHistory(score)
    /\ IF InCooldown(timestamp, last_event_time)
       THEN /\ UNCHANGED <<last_stable_score, last_event_time,
                           reset_candidate, reset_candidate_time>>
            /\ Returns(score, timestamp, overs, "cooldown", NoEvent)
       ELSE
         LET stable == MedianScore(runs_history', wickets_history')
             runs_diff == stable.runs - last_stable_score.runs
             wickets_diff == IF stable.wickets >= 0
                             THEN stable.wickets - last_stable_score.wickets
                             ELSE 0
             event == Classify(last_stable_score, stable, timestamp)
         IN
         IF stable = NoScore
         THEN /\ UNCHANGED <<last_stable_score, last_event_time,
                             reset_candidate, reset_candidate_time>>
              /\ Returns(score, timestamp, overs, "warming", NoEvent)
         ELSE IF last_stable_score = NoScore
         THEN /\ last_stable_score' = stable
              /\ UNCHANGED <<last_event_time, reset_candidate, reset_candidate_time>>
              /\ Returns(score, timestamp, overs, "initial", NoEvent)
         ELSE IF ScoreEq(stable, last_stable_score)
         THEN /\ UNCHANGED <<last_stable_score, last_event_time,
                             reset_candidate, reset_candidate_time>>
              /\ Returns(score, timestamp, overs, "unchanged", NoEvent)
         ELSE IF runs_diff < 0
         THEN IF ScoreEq(stable, reset_candidate)
              THEN IF ResetPersisted(timestamp, reset_candidate_time)
                   THEN /\ last_stable_score' = stable
                        /\ reset_candidate' = NoScore
                        /\ UNCHANGED <<last_event_time, reset_candidate_time>>
                        /\ Returns(score, timestamp, overs, "reset_accepted", NoEvent)
                   ELSE /\ UNCHANGED <<last_stable_score, last_event_time,
                                       reset_candidate, reset_candidate_time>>
                        /\ Returns(score, timestamp, overs, "reset_waiting", NoEvent)
              ELSE /\ reset_candidate' = stable
                   /\ reset_candidate_time' = timestamp
                   /\ UNCHANGED <<last_stable_score, last_event_time>>
                   /\ Returns(score, timestamp, overs, "reset_candidate", NoEvent)
         ELSE
           /\ reset_candidate' = NoScore
           /\ UNCHANGED reset_candidate_time
           /\ last_stable_score' = stable
           /\ IF IsHugeJump(runs_diff, wickets_diff)
              THEN /\ UNCHANGED last_event_time
                   /\ Returns(score, timestamp, overs, "jump", NoEvent)
              ELSE /\ last_event_time' = IF event # NoEvent THEN timestamp
                                         ELSE last_event_time
                   /\ Returns(score, timestamp, overs, "classified", event)

(* ---------------- the observation streams ---------------- *)
NoCall == [before |-> NoScore, branch |-> "none"]

\* no earlier run, no function called on its own, no job
NoOtherCalls ==
  /\ previous = <<>>
  /\ arguments = NoArguments
  /\ result = NoResult
  /\ job = NoJob
  /\ queued = 0
  /\ executions = <<>>
  /\ responses = <<>>
  /\ video_status = "pending"
  /\ highlights = <<>>

InitCaller ==
  /\ InitDetector
  /\ ret = NoEvent
  /\ call = NoCall
  /\ events = <<>>
  /\ now = 0
  /\ NoOtherCalls

\* the locals of process_video before its loop (start_time = 0)
InitVideo ==
  /\ frame_count = 0
  /\ processed = 0
  /\ last_valid_score = NoScore
  /\ candidate_score = NoScore
  /\ candidate_count = 0
  /\ stats = [success |-> 0, fail |-> 0, low_conf |-> 0]
  /\ interrupted = FALSE

\* nothing extracted, nothing on disk
InitAssembler ==
  /\ clip_index = 1
  /\ clips = <<>>
  /\ requests = <<>>
  /\ files = NoFiles
  /\ supercut = NoPath

\* parse_args: the defaults of --before, --after, --no-clips, --no-supercut
DefaultArgs == [before |-> 12, after |-> 5, no_clips |-> FALSE, no_supercut |-> FALSE]

\* a stream that is fed to the detector directly: the run never leaves the
\* observations
DirectCalls ==
  /\ InitVideo
  /\ InitAssembler
  /\ args = DefaultArgs
  /\ pc = "frames"

(* A free stream: two scores in any interleaving, with or without overs,    *)
(* mixed with unusable readings.                                            *)
Deltas == {0, 10}
OversDomain == {<<0, 1>>, <<0, 2>>}
Base == ScoreState(10, 1)
OtherScores ==
  {ScoreState(10 + d, 1) : d \in {0, 3, 4, 5, 6, 7, 8, 9}}
    \cup {ScoreState(10 + d, 2) : d \in {0, 4, 5, 6, 7, 9}}
    \cup {ScoreState(14, 0 - 1), ScoreState(14, 0), ScoreState(14, 3),
          ScoreState(19, 3)}
Unusable == {NoScore, ScoreState(0 - 1, 0), ScoreState(401, 0), ScoreState(10, 11)}

Init ==
  /\ InitCaller
  /\ DirectCalls
  /\ stream \in {<<Base, b>> : b \in OtherScores}
  /\ phase = 0
  /\ fed = <<>>
  /\ started = 0

Observe ==
  \E i \in 1..2, dt \in Deltas, overs \in OversDomain \cup {NoOvers} :
    /\ now + dt <= MaxTime
    /\ Len(events) < MaxEvents
    /\ Detect(stream[i], now + dt, overs)
    /\ UNCHANGED <<stream, phase, fed, started, video, assembler, others>>

ObserveUnusable ==
  \E score \in Unusable, dt \in Deltas, overs \in OversDomain \cup {NoOvers} :
    /\ now + dt <= MaxTime
    /\ Len(events) < MaxEvents
    /\ Detect(score, now + dt, overs)
    /\ UNCHANGED <<stream, phase, fed, started, video, assembler, others>>

Next == Observe \/ ObserveUnusable
Spec == Init /\ [][Next]_vars

(* A scripted stream: the scoreboard shows the scores of the script one     *)
(* after the other, each for any number of observations, no overs.          *)
Bump(n) == IF n < MaxFed THEN n + 1 ELSE n

InitStream(scripts) ==
  /\ InitCaller
  /\ DirectCalls
  /\ stream \in scripts
  /\ phase = 1
  /\ fed = <<0>>
  /\ started = 0

\* one more observation of the score of the current phase
FeedSame(deltas, horizon) ==
  \E dt \in deltas :
    /\ now + dt <= horizon
    /\ Detect(stream[phase], now + dt, NoOvers)
    /\ fed' = [fed EXCEPT ![phase] = Bump(@)]
    /\ started' = IF fed[phase] = 0 THEN now + dt ELSE started
    /\ UNCHANGED <<stream, phase, video, assembler, others>>

\* the scoreboard changes: first observation of the next score of the script
FeedNext(deltas, horizon) ==
  \E dt \in deltas :
    /\ now + dt <= horizon
    /\ phase < Len(stream)
    /\ fed[phase] >= 1
    /\ Detect(stream[phase + 1], now + dt, NoOvers)
    /\ phase' = phase + 1
    /\ fed' = Append(fed, 1)
    /\ started' = now + dt
    /\ UNCHANGED <<stream, video, assembler, others>>

(* Short scripts, timestamps a few seconds apart.                           *)
ScriptDeltas == {0, 1, 5}
HugeJumpScript == <<ScoreState(224, 0), ScoreState(257, 1), ScoreState(261, 1)>>
WicketDropScript == <<ScoreState(52, 1), ScoreState(52, 0), ScoreState(52, 1)>>
TwoFoursScript == <<ScoreState(100, 2), ScoreState(104, 2), ScoreState(108, 2)>>
FourStarts == {ScoreState(0, 0), ScoreState(100, 2), ScoreState(396, 10)}
FourScripts == {<<s, ScoreState(s.runs + 4, s.wickets)>> : s \in FourStarts}
\* the wickets are not read for a while: runs-only readings of the same runs
RunsOnlyScript == <<ScoreState(10, 1), ScoreState(10, 0 - 1), ScoreState(10, 1)>>
Scripts == {HugeJumpScript, WicketDropScript, TwoFoursScript, RunsOnlyScript}
             \cup FourScripts

InitScript == InitStream(Scripts)
StepSame == FeedSame(ScriptDeltas, MaxScriptTime)
StepNext == FeedNext(ScriptDeltas, MaxScriptTime)
NextScript == StepSame \/ StepNext
SpecScript == InitScript /\ [][NextScript]_vars

(* Long scripts: a lower score that stays for more than a minute.           *)
ResetDeltas == {0, 30, 31}
InningsScript == <<ScoreState(200, 5), ScoreState(0, 0), ScoreState(4, 0)>>
ReappearScript == <<ScoreState(50, 0), ScoreState(5, 0), ScoreState(50, 0), ScoreState(5, 0)>>
ResetScripts == {InningsScript, ReappearScript}

InitReset == InitStream(ResetScripts)
WaitSame == FeedSame(ResetDeltas, MaxResetTime)
WaitNext == FeedNext(ResetDeltas, MaxResetTime)
NextReset == WaitSame \/ WaitNext
SpecReset == InitReset /\ [][NextReset]_vars

(* An oscillating stream <<b, d, c>>: the baseline b, then readings that     *)
(* alternate d, b, d, b, ... one observation at a time (phase 2), then the   *)
(* real change to c.                                                        *)
OscDeltas == {0, 1}
OscBase == ScoreState(52, 0)
OscRise == ScoreState(56, 0)
Deviations == {ScoreState(5, 0), ScoreState(54, 0), ScoreState(56, 0),
               ScoreState(60, 0), ScoreState(52, 1), ScoreState(57, 0 - 1)}
OscScripts == {<<OscBase, d, OscRise>> : d \in Deviations}

InitOscillate == InitStream(OscScripts)

\* the k-th observation of the alternation is d for odd k, b for even k
Alternate ==
  \E dt \in OscDeltas :
    /\ now + dt <= MaxOscTime
    /\ phase = 2
    /\ fed[2] < MaxFed
    /\ Detect(IF fed[2] % 2 = 1 THEN stream[1] ELSE stream[2], now + dt, NoOvers)
    /\ fed' = [fed EXCEPT ![2] = @ + 1]
    /\ UNCHANGED <<stream, phase, started, video, assembler, others>>

Sustain == phase # 2 /\ FeedSame(OscDeltas, MaxOscTime)
Change == FeedNext(OscDeltas, MaxOscTime)
NextOscillate == Sustain \/ Change \/ Alternate
SpecOscillate == InitOscillate /\ [][NextOscillate]_vars

(* A scripted stream with overs: every phase is one ball, a score together  *)
(* with the overs the scoreboard shows (NoOvers: the overs were not read),  *)
(* observed any number of times.                                            *)
MaxOversTime == 62
OversDeltas == {0, 31}
Ball(score, overs) == [score |-> score, overs |-> overs]
\* a FOUR on the ball 0.3, after two balls at 10/1
FourOnBallScript ==
  <<Ball(ScoreState(10, 1), <<0, 1>>), Ball(ScoreState(10, 1), <<0, 2>>),
    Ball(ScoreState(14, 1), <<0, 3>>), Ball(ScoreState(14, 1), <<0, 4>>)>>
\* the second innings starts at 0.1 after 19.5, a FOUR falls on its third ball
OversInningsScript ==
  <<Ball(ScoreState(200, 5), <<19, 4>>), Ball(ScoreState(200, 5), <<19, 5>>),
    Ball(ScoreState(0, 0), <<0, 1>>), Ball(ScoreState(0, 0), <<0, 2>>),
    Ball(ScoreState(4, 0), <<0, 3>>), Ball(ScoreState(4, 0), <<0, 4>>)>>
\* overs that go up in the over, down in the ball, and back
MixedOversScript ==
  <<Ball(ScoreState(10, 1), <<0, 5>>), Ball(ScoreState(10, 1), <<1, 0>>),
    Ball(ScoreState(10, 1), NoOvers), Ball(ScoreState(10, 1), <<0, 6>>),
    Ball(ScoreState(11, 1), <<1, 1>>)>>
OversScripts == {FourOnBallScript, OversInningsScript, MixedOversScript}

InitOvers == InitStream(OversScripts)

\* one more observation of the ball of the current phase
BallSame ==
  \E dt \in OversDeltas :
    /\ now + dt <= MaxOversTime
    /\ Detect(stream[phase].score, now + dt, stream[phase].overs)
    /\ fed' = [fed EXCEPT ![phase] = Bump(@)]
    /\ started' = IF fed[phase] = 0 THEN now + dt ELSE started
    /\ UNCHANGED <<stream, phase, video, assembler, others>>

\* the first observation of the next ball of the script
BallNext ==
  \E dt \in OversDeltas :
    /\ now + dt <= MaxOversTime
    /\ phase < Len(stream)
    /\ fed[phase] >= 1
    /\ Detect(stream[phase + 1].score, now + dt, stream[phase + 1].overs)
    /\ phase' = phase + 1
    /\ fed' = Append(fed, 1)
    /\ started' = now + dt
    /\ UNCHANGED <<stream, video, assembler, others>>

NextOvers == BallSame \/ BallNext
SpecOvers == InitOvers /\ [][NextOvers]_vars

(* ---------------- process_video ---------------- *)
Max(a, b) == IF a >= b THEN a ELSE b

Fps == 2               \* frames per second of the video
SampleInterval == 1    \* --interval, in seconds
\* frame_skip = max(1, int(fps * sample_interval))
FrameSkip == Max(1, Fps * SampleInterval)

\* timestamp = frame_count / fps (whole seconds on the sampled frames)
FrameTime(count) == count \div Fps

\* a comparison with the candidate that only looks at the runs
SameCandidateRuns(candidate, score) == candidate.runs = score.runs

\* candidate_score == score
SameCandidate(candidate, score) == ScoreEq(candidate, score)

\* the body of the loop for a sampled frame whose OCR yielded score and overs
\* (score = NoScore: parse failure, OCR error, no ROI or, with low set, a
\* confidence below the gate)
Sample(score, low, overs) ==
  LET timestamp == FrameTime(frame_count)
      persisted == IF score # NoScore THEN score ELSE last_valid_score
  IN  /\ processed' = processed + 1
      /\ stats' = [success |-> stats.success + (IF score # NoScore THEN 1 ELSE 0),
                   fail |-> stats.fail + (IF score # NoScore THEN 0 ELSE 1),
                   low_conf |-> stats.low_conf
                                  + (IF score = NoScore /\ low THEN 1 ELSE 0)]
      /\ last_valid_score' = persisted
      /\ IF persisted # NoScore
         THEN IF SameCandidate(candidate_score, persisted)
              THEN /\ candidate_count' = candidate_count + 1
                   /\ UNCHANGED candidate_score
                   /\ IF candidate_count + 1 >= 2
                      THEN Detect(persisted, timestamp, overs)
                      ELSE UNCHANGED <<detector, ret, call, events, now>>
              ELSE /\ candidate_score' = persisted
                   /\ candidate_count' = 1
                   /\ UNCHANGED <<detector, ret, call, events, now>>
         ELSE UNCHANGED <<candidate_score, candidate_count,
                          detector, ret, call, events, now>>
      /\ frame_count' = frame_count + 1

InLoop == pc = "frames" /\ frame_count < TotalFrames
Sampled == frame_count % FrameSkip = 0

\* a frame between two sampled frames
SkipFrame ==
  /\ InLoop
  /\ ~Sampled
  /\ frame_count' = frame_count + 1
  /\ UNCHANGED <<detector, ret, call, events, now, stream, phase, fed, started,
                 processed, last_valid_score, candidate_score, candidate_count,
                 stats, assembler, others>>

\* the scoreboard still shows the score of the current phase and is read
ReadSame ==
  /\ InLoop
  /\ Sampled
  /\ Sample(stream[phase], FALSE, NoOvers)
  /\ fed' = [fed EXCEPT ![phase] = Bump(@)]
  /\ started' = IF fed[phase] = 0 THEN FrameTime(frame_count) ELSE started
  /\ UNCHANGED <<stream, phase, assembler, others>>

\* the scoreboard shows the next score of the script and is read
ReadNext ==
  /\ InLoop
  /\ Sampled
  /\ phase < Len(stream)
  /\ fed[phase] >= 1
  /\ Sample(stream[phase + 1], FALSE, NoOvers)
  /\ phase' = phase + 1
  /\ fed' = Append(fed, 1)
  /\ started' = FrameTime(frame_count)
  /\ UNCHANGED <<stream, assembler, others>>

\* the OCR of the sampled frame yields no score
ReadFail ==
  \E low \in BOOLEAN :
  /\ InLoop
  /\ Sampled
  /\ stats.fail < MaxFail
  /\ Sample(NoScore, low, NoOvers)
  /\ UNCHANGED <<stream, phase, fed, started, assembler, others>>

\* video.read() fails at the end of the video: the loop ends
EndOfVideo ==
  /\ pc = "frames"
  /\ frame_count = TotalFrames
  /\ pc' = "returned"
  /\ UNCHANGED <<detector, ret, call, events, now, stream, phase, fed, started,
                 video, others, interrupted, args, clip_index, clips, requests, files,
                 supercut>>

\* KeyboardInterrupt inside the loop: caught, process_video returns the
\* events collected so far
Interrupt ==
  /\ InLoop
  /\ Sampled
  /\ interrupted' = TRUE
  /\ pc' = "returned"
  /\ UNCHANGED <<detector, ret, call, events, now, stream, phase, fed, started,
                 video, others, args, clip_index, clips, requests, files, supercut>>

(* ---------------- extract_clips, create_supercut, main ---------------- *)
VideoId == "match"                        \* Path(video_path).stem
OutputDir == "trimmed"                    \* --output-dir
SupercutPath == "highlight/match_highlights.mp4"
ConcatFile == "highlight/match_highlights.txt"   \* output_path.with_suffix('.txt')
ReturnCodes == {0, 1}                     \* exit status of the media tool
Cwd == "/work"                            \* the working directory of the run

\* the format {i:03d}
Pad3(i) == IF i < 10 THEN "00" \o ToString(i)
           ELSE IF i < 100 THEN "0" \o ToString(i)
           ELSE ToString(i)

\* a clip index that counts the extracted clips instead of the events
ClipIndexOfSuccess(i, extracted) == Len(extracted) + 1

\* enumerate(events, 1): the index that goes into the name of the clip
ClipIndex(i, extracted) == i

\* clip_path = output_dir / "{video_id}_clip_{i:03d}_{type}_{int(ts)}.mp4"
ClipPath(i, event) ==
  OutputDir \o "/" \o VideoId \o "_clip_" \o Pad3(i) \o "_" \o event.type
    \o "_" \o ToString(event.timestamp) \o ".mp4"

\* a start that is not clamped
ClipStartUnclamped(ts, before) == ts - before

\* start = max(0, ts - before)
ClipStart(ts, before) == Max(0, ts - before)

\* the argument of -t
ClipDuration(before, after) == before + after

\* a loop that gives up at the first failure
NextClipStopOnFailure(i, returncode, n) == IF returncode = 0 THEN i + 1 ELSE n + 1

\* the for loop goes on to the next event whatever the exit status was
NextClip(i, returncode, n) == i + 1

\* Path(clip).absolute() of a relative path
Absolute(path) == Cwd \o "/" \o path

\* one line of the concat list
ConcatLine(clip) == "file '" \o Absolute(clip) \o "'"

WriteFile(path, content) == (path :> content) @@ files

\* an unlink that empties the disk
UnlinkAll(fs, path) == NoFiles

Unlink(fs, path) == [q \in (DOMAIN fs) \ {path} |-> fs[q]]

Invocation(tool, start, duration, list, output, returncode) ==
  [tool |-> tool, start |-> start, duration |-> duration, list |-> list,
   output |-> output, returncode |-> returncode]

\* one iteration of the loop of extract_clips
ExtractClip ==
  \E returncode \in ReturnCodes :
    /\ pc = "clips"
    /\ clip_index <= Len(events)
    /\ LET event == events[clip_index]
           ts == event.timestamp
           start == ClipStart(ts, args.before)
           clip_path == ClipPath(ClipIndex(clip_index, clips), event)
       IN  /\ requests' = Append(requests,
                 Invocation("trim", start, ClipDuration(args.before, args.after),
                            <<>>, clip_path, returncode))
           /\ clips' = IF returncode = 0 THEN Append(clips, clip_path) ELSE clips
           /\ files' = IF returncode = 0
                       THEN WriteFile(clip_path, <<start, ClipDuration(args.before, args.after)>>)
                       ELSE files
    /\ clip_index' = NextClip(clip_index, returncode, Len(events))
    /\ UNCHANGED <<detector, ret, call, events, now, stream, phase, fed, started,
                   video, others, pc, interrupted, args, supercut>>

\* the loop of extract_clips is over: it returns clips
ExtractReturn ==
  /\ pc = "clips"
  /\ clip_index > Len(events)
  /\ pc' = "supercut"
  /\ UNCHANGED <<detector, ret, call, events, now, stream, phase, fed, started,
                 video, others, interrupted, args, clip_index, clips, requests, files,
                 supercut>>

\* create_supercut(clips, output_path), the whole call
CreateSupercut ==
  IF clips = <<>>
  THEN /\ supercut' = NoPath
       /\ UNCHANGED <<requests, files>>
  ELSE \E returncode \in ReturnCodes :
         LET list == [i \in 1..Len(clips) |-> ConcatLine(clips[i])]
             written == WriteFile(ConcatFile, list)
             unlinked == Unlink(written, ConcatFile)
         IN  /\ requests' = Append(requests,
                   Invocation("concat", 0, 0, list, SupercutPath, returncode))
             /\ files' = IF returncode = 0
                         THEN (SupercutPath :> list) @@ unlinked
                         ELSE unlinked
             /\ supercut' = IF returncode = 0 THEN SupercutPath ELSE NoPath

\* main after process_video returned: no events, nothing to do
MainNoEvents ==
  /\ pc = "returned"
  /\ events = <<>>
  /\ pc' = "done"
  /\ UNCHANGED <<detector, ret, call, events, now, stream, phase, fed, started,
                 video, others, interrupted, args, clip_index, clips, requests, files,
                 supercut>>

\* main: extract_clips is called unless --no-clips
MainClips ==
  /\ pc = "returned"
  /\ events # <<>>
  /\ pc' = IF args.no_clips THEN "supercut" ELSE "clips"
  /\ UNCHANGED <<detector, ret, call, events, now, stream, phase, fed, started,
                 video, others, interrupted, args, clip_index, clips, requests, files,
                 supercut>>

\* main: create_supercut is called unless --no-supercut or there is no clip
MainSupercut ==
  /\ pc = "supercut"
  /\ IF ~args.no_supercut /\ clips # <<>>
     THEN CreateSupercut
     ELSE UNCHANGED <<requests, files, supercut>>
  /\ pc' = "done"
  /\ UNCHANGED <<detector, ret, call, events, now, stream, phase, fed, started,
                 video, others, interrupted, args, clip_index, clips>>

(* A run of main over a video whose scoreboard follows a script.            *)
VideoScripts == {<<ScoreState(20, 1), ScoreState(24, 1), ScoreState(24, 2)>>}
MainArgs == {DefaultArgs, [DefaultArgs EXCEPT !.no_clips = TRUE],
             [DefaultArgs EXCEPT !.no_supercut = TRUE]}

InitMain ==
  /\ InitCaller
  /\ InitVideo
  /\ InitAssembler
  /\ args \in MainArgs
  /\ pc = "frames"
  /\ stream \in VideoScripts
  /\ phase = 1
  /\ fed = <<0>>
  /\ started = 0

NextMain ==
  \/ SkipFrame
  \/ ReadSame
  \/ ReadNext
  \/ ReadFail
  \/ EndOfVideo
  \/ Interrupt
  \/ MainNoEvents
  \/ MainClips
  \/ ExtractClip
  \/ ExtractReturn
  \/ MainSupercut
SpecMain == InitMain /\ [][NextMain]_vars

(* extract_clips and create_supercut called on a list of events: up to      *)
(* MaxClipEvents events, in the order and at the distance the detector      *)
(* emits them.                                                              *)
ClipTimes == {3, 13, 30}
ClipTypes == {"FOUR", "WICKET"}
Befores == {0, 5, 12}
Afters == {0, 5}
ClipEvents ==
  {[type |-> t, timestamp |-> ts, score_before |-> "20/1", score_after |-> "24/2"] :
     t \in ClipTypes, ts \in ClipTimes}
EventLists ==
  {l \in UNION {[1..n -> ClipEvents] : n \in 0..MaxClipEvents} :
     \A i \in 1..(Len(l) - 1) :
       l[i + 1].timestamp - l[i].timestamp >= COOLDOWN_SECONDS}

InitClips ==
  /\ InitDetector
  /\ NoOtherCalls
  /\ ret = NoEvent
  /\ call = NoCall
  /\ now = 0
  /\ events \in EventLists
  /\ InitVideo
  /\ InitAssembler
  /\ args \in {[DefaultArgs EXCEPT !.before = b, !.after = a] :
                 b \in Befores, a \in Afters}
  /\ pc = "clips"
  /\ stream = <<>>
  /\ phase = 0
  /\ fed = <<>>
  /\ started = 0

\* create_supercut called with whatever extract_clips returned
DirectSupercut ==
  /\ pc = "supercut"
  /\ CreateSupercut
  /\ pc' = "done"
  /\ UNCHANGED <<detector, ret, call, events, now, stream, phase, fed, started,
                 video, others, interrupted, args, clip_index, clips>>

NextClips == ExtractClip \/ ExtractReturn \/ DirectSupercut
SpecClips == InitClips /\ [][NextClips]_vars

(* run_ocr_processing after the detection: extract_clips with before=12 and *)
(* after=5, create_supercut when there is a clip, then one HighlightEvent   *)
(* row per event.                                                           *)
TaskArgs == [DefaultArgs EXCEPT !.before = 12, !.after = 5]

\* the row that is stored for an event
HighlightEvent(event, clip_path) ==
  [event_type |-> event.type, timestamp_seconds |-> event.timestamp,
   score_before |-> event.score_before, score_after |-> event.score_after,
   clip_path |-> clip_path]

\* an association by name: the clip whose path was built for event i
ClipOfEvent(i, extracted) ==
  IF \E k \in 1..Len(extracted) : extracted[k] = ClipPath(i, events[i])
  THEN ClipPath(i, events[i])
  ELSE NoPath

\* clips[i] if i < len(clips) else None, with i counted from 1
ClipAt(i, extracted) == IF i <= Len(extracted) THEN extracted[i] ELSE NoPath

InitTask ==
  /\ InitDetector
  /\ previous = <<>>
  /\ arguments = NoArguments
  /\ result = NoResult
  /\ job = [status |-> "processing", retry_count |-> 0]
  /\ video_status = "processing"
  /\ queued = 0
  /\ executions = <<"processing">>
  /\ responses = <<>>
  /\ highlights = <<>>
  /\ ret = NoEvent
  /\ call = NoCall
  /\ now = 0
  /\ events \in EventLists
  /\ InitVideo
  /\ InitAssembler
  /\ args = TaskArgs
  /\ pc = "clips"
  /\ stream = <<>>
  /\ phase = 0
  /\ fed = <<>>
  /\ started = 0

\* supercut_path = create_supercut(...) if clips else None
TaskSupercut ==
  /\ pc = "supercut"
  /\ IF clips # <<>>
     THEN CreateSupercut
     ELSE /\ supercut' = NoPath
          /\ UNCHANGED <<requests, files>>
  /\ pc' = "save"
  /\ UNCHANGED <<detector, ret, call, events, now, stream, phase, fed, started,
                 video, others, interrupted, args, clip_index, clips>>

\* the loop that adds a HighlightEvent for every event
SaveEvents ==
  /\ pc = "save"
  /\ highlights' = [i \in 1..Len(events) |->
                      HighlightEvent(events[i], ClipAt(i, clips))]
  /\ pc' = "saved"
  /\ UNCHANGED <<detector, ret, call, events, now, stream, phase, fed, started,
                 video, previous, pure, job, queued, executions, responses,
                 video_status, interrupted, args, clip_index, clips, requests,
                 files, supercut>>

NextTask == ExtractClip \/ ExtractReturn \/ TaskSupercut \/ SaveEvents
SpecTask == InitTask /\ [][NextTask]_vars

(* Two runs of main over the same readings: one reading per sampled frame, *)
(* given in stream, and the same arguments.                                *)
MaxRuns == 2
ReplayFirst == ScoreState(20, 1)
ReplaySeconds == {ScoreState(24, 1), ScoreState(26, 1), ScoreState(20, 2),
                  ScoreState(21, 1)}
ReplayLeads == {6, 7}
ReplayTails == {4, 5}
ReplayBetween == {<<>>, <<NoScore>>, <<ScoreState(28, 1)>>}
Rep(x, n) == [i \in 1..n |-> x]
ReplayReadings ==
  {Rep(ReplayFirst, a) \o mid \o Rep(second, b) :
     a \in ReplayLeads, mid \in ReplayBetween, second \in ReplaySeconds,
     b \in ReplayTails}

\* total_frames of the replayed video: FrameSkip frames per reading
ReplayFrames == Len(stream) * FrameSkip

\* a run that goes on with the detector of the run before
KeptDetector == UNCHANGED detector

\* detector = EventDetector(): __init__ calls reset()
NewDetector ==
  /\ last_event_time' = INITIAL_EVENT_TIME
  /\ last_stable_score' = NoScore
  /\ last_over' = NoOvers
  /\ runs_history' = <<>>
  /\ wickets_history' = <<>>
  /\ reset_candidate' = NoScore
  /\ reset_candidate_time' = 0

InitReplay ==
  /\ InitCaller
  /\ InitVideo
  /\ InitAssembler
  /\ args \in MainArgs
  /\ pc = "frames"
  /\ stream \in ReplayReadings
  /\ phase = 0
  /\ fed = <<>>
  /\ started = 0

\* a frame between two sampled frames of the replayed video
ReplaySkip ==
  /\ pc = "frames"
  /\ frame_count < ReplayFrames
  /\ ~Sampled
  /\ frame_count' = frame_count + 1
  /\ UNCHANGED <<detector, ret, call, events, now, stream, phase, fed, started,
                 processed, last_valid_score, candidate_score, candidate_count,
                 stats, assembler, others>>

\* a sampled frame: the OCR yields the next reading
ReplayRead ==
  /\ pc = "frames"
  /\ frame_count < ReplayFrames
  /\ Sampled
  /\ Sample(stream[processed + 1], FALSE, NoOvers)
  /\ UNCHANGED <<stream, phase, fed, started, assembler, others>>

\* video.read() fails at the end of the replayed video
ReplayEnd ==
  /\ pc = "frames"
  /\ frame_count = ReplayFrames
  /\ pc' = "returned"
  /\ UNCHANGED <<detector, ret, call, events, now, stream, phase, fed, started,
                 video, others, interrupted, args, clip_index, clips, requests, files,
                 supercut>>

\* main is started again on the same video with the same arguments: the
\* locals of process_video and of extract_clips are new, the files stay
Rerun ==
  /\ pc = "done"
  /\ Len(previous) < MaxRuns - 1
  /\ previous' = Append(previous, [events |-> events, requests |-> requests])
  /\ NewDetector
  /\ events' = <<>>
  /\ ret' = NoEvent
  /\ call' = NoCall
  /\ now' = 0
  /\ frame_count' = 0
  /\ processed' = 0
  /\ last_valid_score' = NoScore
  /\ candidate_score' = NoScore
  /\ candidate_count' = 0
  /\ stats' = [success |-> 0, fail |-> 0, low_conf |-> 0]
  /\ clip_index' = 1
  /\ clips' = <<>>
  /\ requests' = <<>>
  /\ supercut' = NoPath
  /\ pc' = "frames"
  /\ UNCHANGED <<stream, phase, fed, started, interrupted, args, files, pure,
                 service>>

NextReplay ==
  \/ ReplaySkip
  \/ ReplayRead
  \/ ReplayEnd
  \/ MainNoEvents
  \/ MainClips
  \/ ExtractClip
  \/ ExtractReturn
  \/ MainSupercut
  \/ Rerun
SpecReplay == InitReplay /\ [][NextReplay]_vars

(* ---------------- parse_score ---------------- *)
(* A text is a sequence of characters, each a string of length one.        *)
MaxDigits == 5              \* longest text of digits that is parsed
MAX_SCORE_RUNS == 999
MAX_SCORE_WICKETS == 10
NoWickets == 0 - 1          \* prev_wickets is None

DigitChars == <<"0", "1", "2", "3", "4", "5", "6", "7", "8", "9">>
IsDigit(c) == \E d \in 1..10 : DigitChars[d] = c
IsSpace(c) == c \in {" ", "\t"}
DigitValue(c) == (CHOOSE d \in 1..10 : DigitChars[d] = c) - 1

\* str(n) of a natural number
RECURSIVE Decimal(_)
Decimal(n) == IF n < 10 THEN <<DigitChars[n + 1]>>
              ELSE Decimal(n \div 10) \o <<DigitChars[(n % 10) + 1]>>

\* int(digits) of a non-empty text of digits
RECURSIVE ToInt(_)
ToInt(digits) ==
  IF Len(digits) = 1 THEN DigitValue(digits[1])
  ELSE ToInt(SubSeq(digits, 1, Len(digits) - 1)) * 10
         + DigitValue(digits[Len(digits)])

AllDigits(text) == \A i \in 1..Len(text) : IsDigit(text[i])
AllSpaces(text) == \A i \in 1..Len(text) : IsSpace(text[i])

\* ScoreState.__repr__ as a text
ReprChars(score) ==
  IF score.wickets >= 0
  THEN Decimal(score.runs) \o <<"/">> \o Decimal(score.wickets)
  ELSE Decimal(score.runs)

\* OCR_CORRECTIONS, applied character by character
Corrected(c) ==
  IF c \in {"O", "o"} THEN "0"
  ELSE IF c \in {"S", "s"} THEN "5"
  ELSE IF c \in {"I", "l", "|"} THEN "1"
  ELSE IF c = "B" THEN "8"
  ELSE IF c \in {"b", "G", "g"} THEN "6"
  ELSE c

clean_ocr_text(text) == [i \in 1..Len(text) |-> Corrected(text[i])]

\* str.strip()
RECURSIVE Strip(_)
Strip(text) ==
  IF text = <<>> THEN <<>>
  ELSE IF IsSpace(Head(text)) THEN Strip(Tail(text))
  ELSE IF IsSpace(text[Len(text)]) THEN Strip(SubSeq(text, 1, Len(text) - 1))
  ELSE text

\* re.sub(r'[f|\\]', '/', text)
SlashFor(c) == IF c \in {"f", "|", "\\"} THEN "/" ELSE c
NormalizeSeparators(text) == [i \in 1..Len(text) |-> SlashFor(text[i])]

IsDigitOrSlash(c) == IsDigit(c) \/ c = "/"

\* the positions of the slash for which ^(\d{1,3})/(\d{1,2})$ matches
SlashMatches(cleaned) ==
  {k \in 1..Len(cleaned) :
     /\ cleaned[k] = "/"
     /\ k - 1 \in 1..3
     /\ Len(cleaned) - k \in 1..2
     /\ AllDigits(SubSeq(cleaned, 1, k - 1))
     /\ AllDigits(SubSeq(cleaned, k + 1, Len(cleaned)))}

\* the (first, last) positions of the blanks for which
\* ^(\d{1,3})\s+(\d{1,2})$ matches
SpaceMatches(stripped) ==
  {m \in (1..Len(stripped)) \X (1..Len(stripped)) :
     /\ m[1] <= m[2]
     /\ m[1] - 1 \in 1..3
     /\ Len(stripped) - m[2] \in 1..2
     /\ AllDigits(SubSeq(stripped, 1, m[1] - 1))
     /\ AllSpaces(SubSeq(stripped, m[1], m[2]))
     /\ AllDigits(SubSeq(stripped, m[2] + 1, Len(stripped)))}

\* a range of the wickets that stops at one digit
WicketsInRangeOneDigit(wickets) == 0 <= wickets /\ wickets <= 9

\* 0 <= wickets <= 10
WicketsInRange(wickets) == 0 <= wickets /\ wickets <= MAX_SCORE_WICKETS

\* a last digit that is taken for the wickets whatever came before
LastDigitPlausibleAlways(last_digit, prev_wickets) == TRUE

\* last_digit in (prev_wickets, prev_wickets + 1)
LastDigitPlausible(last_digit, prev_wickets) ==
  last_digit \in {prev_wickets, prev_wickets + 1}

\* parse_score(text, prev_wickets); NoScore stands for None
parse_score(raw, prev_wickets) ==
  IF raw = <<>> \/ Strip(raw) = <<>> THEN NoScore
  ELSE
  LET original == clean_ocr_text(raw)
      text == NormalizeSeparators(original)
      cleaned == Strip(SelectSeq(text, IsDigitOrSlash))
      slash == SlashMatches(cleaned)
      k == CHOOSE k \in slash : TRUE
      slash_runs == ToInt(SubSeq(cleaned, 1, k - 1))
      slash_wickets == ToInt(SubSeq(cleaned, k + 1, Len(cleaned)))
      stripped == Strip(original)
      space == SpaceMatches(stripped)
      m == CHOOSE m \in space : TRUE
      space_runs == ToInt(SubSeq(stripped, 1, m[1] - 1))
      space_wickets == ToInt(SubSeq(stripped, m[2] + 1, Len(stripped)))
      digits_only == SelectSeq(text, IsDigit)
      last_digit == DigitValue(digits_only[Len(digits_only)])
      runs_str == SubSeq(digits_only, 1, Len(digits_only) - 1)
  IN
  IF slash # {} /\ slash_runs <= MAX_SCORE_RUNS /\ WicketsInRange(slash_wickets)
  THEN ScoreState(slash_runs, slash_wickets)
  ELSE IF space # {} /\ space_runs <= MAX_SCORE_RUNS /\ WicketsInRange(space_wickets)
  THEN ScoreState(space_runs, space_wickets)
  ELSE IF /\ Len(digits_only) >= 2
          /\ prev_wickets # NoWickets
          /\ 0 <= last_digit /\ last_digit <= 10
          /\ LastDigitPlausible(last_digit, prev_wickets)
          /\ runs_str # <<>> /\ Len(runs_str) <= 3
          /\ ToInt(runs_str) <= MAX_SCORE_RUNS
  THEN ScoreState(ToInt(runs_str), last_digit)
  ELSE IF Len(digits_only) \in 1..3 /\ ToInt(digits_only) <= MAX_SCORE_RUNS
  THEN ScoreState(ToInt(digits_only), NoWickets)
  ELSE NoScore

(* parse_score called on its own: the representations of the resolved      *)
(* scores with either separator, texts of digits, and some OCR outputs.    *)
PrevWickets == {NoWickets} \cup (0..MAX_SCORE_WICKETS)
Separators == {<<"/">>, <<" ">>}
ResolvedRuns == 0..MAX_SCORE_RUNS
ResolvedWickets == 0..MAX_SCORE_WICKETS
TextAlphabet == {"0", "1", "3", "4"}
DigitTexts == UNION {[1..n -> TextAlphabet] : n \in 1..MaxDigits}
OcrTexts ==
  {<<>>, <<" ">>, <<"1", "4", "5">>, <<"l", "4", "S", "/", "3">>,
   <<"1", "4", "5", "f", "3">>, <<"1", "4", "5", " ", " ", "3">>,
   <<" ", "1", "4", "5", "/", "3", " ">>, <<"1", "4", "5", "/", "1", "1">>,
   <<"1", "4", "5", "-", "3">>, <<"1", "4", "5", "3">>, <<"x">>}
ParseArguments(text, prev_wickets) ==
  [function |-> "parse_score", text |-> text, prev_wickets |-> prev_wickets]

InitParse ==
  /\ InitDetector
  /\ ret = NoEvent
  /\ call = NoCall
  /\ events = <<>>
  /\ now = 0
  /\ DirectCalls
  /\ stream = <<>>
  /\ phase = 0
  /\ fed = <<>>
  /\ started = 0
  /\ previous = <<>>
  /\ \/ \E r \in ResolvedRuns, w \in ResolvedWickets, sep \in Separators,
            prev \in PrevWickets :
           arguments = ParseArguments(Decimal(r) \o sep \o Decimal(w), prev)
     \/ \E text \in DigitTexts \cup OcrTexts, prev \in PrevWickets :
           arguments = ParseArguments(text, prev)
  /\ result = NoResult
  /\ job = NoJob
  /\ queued = 0
  /\ executions = <<>>
  /\ responses = <<>>
  /\ video_status = "pending"
  /\ highlights = <<>>

ParseScoreCall ==
  /\ arguments.function = "parse_score"
  /\ result = NoResult
  /\ result' = [function |-> "parse_score",
                value |-> parse_score(arguments.text, arguments.prev_wickets)]
  /\ UNCHANGED <<detector, ret, call, events, now, stream, phase, fed, started,
                 video, assembler, previous, arguments, service>>

NextParse == ParseScoreCall
SpecParse == InitParse /\ [][NextParse]_vars

(* ---------------- OCRScoreReader._extract_region ---------------- *)
MaxCoord == 6               \* largest configured x and y
FrameWidths == {4, 8}
FrameHeights == {3, 6}
RoiWidths == {2, 5}
RoiHeights == {2, 4}
Min(a, b) == IF a <= b THEN a ELSE b

\* the index a slice bound i stands for in an axis of length n
SliceIndex(i, n) == IF i < 0 THEN Max(0, i + n) ELSE Min(i, n)

\* the indices frame[start:stop] takes from an axis of length n
Slice(start, stop, n) == SliceIndex(start, n)..(SliceIndex(stop, n) - 1)

\* _extract_region(frame, x, y, w, h) up to the crop: the origin after
\* x, y = min(x, width - w), min(y, height - h) and the columns and rows
\* of roi = frame[y:y+h, x:x+w]
extract_region(width, height, x, y, w, h) ==
  LET cx == Min(x, width - w)
      cy == Min(y, height - h)
  IN  [function |-> "_extract_region", x |-> cx, y |-> cy,
       columns |-> Slice(cx, cx + w, width),
       rows |-> Slice(cy, cy + h, height)]

InitRegion ==
  /\ InitDetector
  /\ ret = NoEvent
  /\ call = NoCall
  /\ events = <<>>
  /\ now = 0
  /\ DirectCalls
  /\ stream = <<>>
  /\ phase = 0
  /\ fed = <<>>
  /\ started = 0
  /\ previous = <<>>
  /\ \E width \in FrameWidths, height \in FrameHeights, x \in 0..MaxCoord,
        y \in 0..MaxCoord, w \in RoiWidths, h \in RoiHeights :
       arguments = [function |-> "_extract_region", width |-> width,
                    height |-> height, x |-> x, y |-> y, w |-> w, h |-> h]
  /\ result = NoResult
  /\ job = NoJob
  /\ queued = 0
  /\ executions = <<>>
  /\ responses = <<>>
  /\ video_status = "pending"
  /\ highlights = <<>>

ExtractRegionCall ==
  /\ arguments.function = "_extract_region"
  /\ result = NoResult
  /\ result' = extract_region(arguments.width, arguments.height, arguments.x,
                              arguments.y, arguments.w, arguments.h)
  /\ UNCHANGED <<detector, ret, call, events, now, stream, phase, fed, started,
                 video, assembler, previous, arguments, service>>

NextRegion == ExtractRegionCall
SpecRegion == InitRegion /\ [][NextRegion]_vars

(* ---------------- the sampling schedule of process_video ---------------- *)
(* fps and --interval are given in halves (fps_halves = 5 is 2.5 frames    *)
(* per second), so that their product is exact in quarters; the OCR reads  *)
(* nothing on any frame.                                                    *)
MaxSamplingFrames == 10     \* largest total_frames of a video
FpsHalves == {2, 3, 5, 6}
IntervalHalves == {1, 2, 3}

\* frame_skip = max(1, int(fps * sample_interval)): int() truncates
frame_skip(fps_halves, interval_halves) ==
  Max(1, (fps_halves * interval_halves) \div 4)

\* timestamp = frame_count / fps, as a fraction
frame_timestamp(count, fps_halves) == [num |-> 2 * count, den |-> fps_halves]

\* the frames the loop has handled so far
Handled == IF result = NoResult THEN <<>> ELSE result.handled

InitSampling ==
  /\ InitDetector
  /\ ret = NoEvent
  /\ call = NoCall
  /\ events = <<>>
  /\ now = 0
  /\ DirectCalls
  /\ stream = <<>>
  /\ phase = 0
  /\ fed = <<>>
  /\ started = 0
  /\ previous = <<>>
  /\ \E fps_halves \in FpsHalves, interval_halves \in IntervalHalves,
        total_frames \in 8..MaxSamplingFrames :
       arguments = [function |-> "process_video", fps_halves |-> fps_halves,
                    interval_halves |-> interval_halves,
                    total_frames |-> total_frames]
  /\ result = NoResult
  /\ job = NoJob
  /\ queued = 0
  /\ executions = <<>>
  /\ responses = <<>>
  /\ video_status = "pending"
  /\ highlights = <<>>

InSamplingLoop ==
  /\ arguments.function = "process_video"
  /\ pc = "frames"
  /\ frame_count < arguments.total_frames

SamplingDue ==
  frame_count % frame_skip(arguments.fps_halves, arguments.interval_halves) = 0

\* an iteration of the loop that passes the frame by
SamplingSkip ==
  /\ InSamplingLoop
  /\ ~SamplingDue
  /\ frame_count' = frame_count + 1
  /\ UNCHANGED <<detector, ret, call, events, now, stream, phase, fed, started,
                 processed, last_valid_score, candidate_score, candidate_count,
                 stats, assembler, others>>

\* an iteration of the loop that handles the frame; its OCR yields no score
SamplingRead ==
  \E low \in BOOLEAN :
  /\ InSamplingLoop
  /\ SamplingDue
  /\ Sample(NoScore, low, NoOvers)
  /\ result' = [function |-> "process_video",
                handled |-> Append(Handled,
                   [index |-> frame_count,
                    timestamp |-> frame_timestamp(frame_count,
                                                  arguments.fps_halves)])]
  /\ UNCHANGED <<stream, phase, fed, started, assembler, previous, arguments,
                 service>>

\* video.read() fails at the end of the video
SamplingEnd ==
  /\ arguments.function = "process_video"
  /\ pc = "frames"
  /\ frame_count = arguments.total_frames
  /\ pc' = "returned"
  /\ UNCHANGED <<detector, ret, call, events, now, stream, phase, fed, started,
                 video, others, interrupted, args, clip_index, clips, requests, files,
                 supercut>>

NextSampling == SamplingSkip \/ SamplingRead \/ SamplingEnd
SpecSampling == InitSampling /\ [][NextSampling]_vars

(* ---------------- the jobs routes and run_ocr_processing ---------------- *)
(* One video. The routes answer a request in one step; a background task   *)
(* added by a route starts later, commits PROCESSING when it starts and     *)
(* commits COMPLETED or FAILED when it ends.                                *)
MaxRequests == 5            \* requests sent to the routes
MAX_RETRY_COUNT == 3
PENDING == "pending"
PROCESSING == "processing"
COMPLETED == "completed"
FAILED == "failed"
AlreadyProcessing == "Video is already being processed"
NoJobFound == "No processing job found for this video"
OnlyFailed == "Can only retry failed jobs"
MaxRetriesExceeded == "Maximum retry attempts (3) exceeded"

\* what a route answered; seen is the status of the job it found
Response(route, code, detail, seen) ==
  [route |-> route, code |-> code, detail |-> detail, seen |-> seen]

InitJobs ==
  /\ InitDetector
  /\ ret = NoEvent
  /\ call = NoCall
  /\ events = <<>>
  /\ now = 0
  /\ DirectCalls
  /\ stream = <<>>
  /\ phase = 0
  /\ fed = <<>>
  /\ started = 0
  /\ NoOtherCalls

\* POST /trigger for the video
trigger_ocr_job ==
  /\ Len(responses) < MaxRequests
  /\ IF job # NoJob /\ job.status = PROCESSING
     THEN /\ responses' = Append(responses,
                Response("trigger", 409, AlreadyProcessing, job.status))
          /\ UNCHANGED <<job, queued>>
     ELSE /\ job' = IF job # NoJob THEN [job EXCEPT !.status = PENDING]
                    ELSE [status |-> PENDING, retry_count |-> 0]
          /\ queued' = queued + 1
          /\ responses' = Append(responses,
                Response("trigger", 202, "", job.status))
  /\ UNCHANGED <<detector, ret, call, events, now, stream, phase, fed, started,
                 video, assembler, previous, pure, executions, video_status,
                 highlights>>

\* POST /{video_id}/retry
retry_failed_job ==
  /\ Len(responses) < MaxRequests
  /\ IF job = NoJob
     THEN /\ responses' = Append(responses,
                Response("retry", 404, NoJobFound, job.status))
          /\ UNCHANGED <<job, queued, video_status>>
     ELSE IF job.status # FAILED
     THEN /\ responses' = Append(responses,
                Response("retry", 400, OnlyFailed, job.status))
          /\ UNCHANGED <<job, queued, video_status>>
     ELSE IF job.retry_count >= MAX_RETRY_COUNT
     THEN /\ responses' = Append(responses,
                Response("retry", 400, MaxRetriesExceeded, job.status))
          /\ UNCHANGED <<job, queued, video_status>>
     ELSE /\ job' = [job EXCEPT !.status = PENDING]
          /\ video_status' = PENDING
          /\ queued' = queued + 1
          /\ responses' = Append(responses,
                Response("retry", 200, "", job.status))
  /\ UNCHANGED <<detector, ret, call, events, now, stream, phase, fed, started,
                 video, assembler, previous, pure, executions, highlights>>

\* a background task starts: run_ocr_processing up to its first commit
StartProcessing ==
  /\ queued > 0
  /\ queued' = queued - 1
  /\ IF job = NoJob
     THEN UNCHANGED <<job, executions, video_status>>
     ELSE /\ job' = [job EXCEPT !.status = PROCESSING]
          /\ video_status' = PROCESSING
          /\ executions' = Append(executions, PROCESSING)
  /\ UNCHANGED <<detector, ret, call, events, now, stream, phase, fed, started,
                 video, assembler, previous, pure, responses, highlights>>

\* run_ocr_processing ends without an exception: its last commit stores
\* COMPLETED in both rows
ProcessingCompleted ==
  /\ executions # <<>>
  /\ executions' = Tail(executions)
  /\ job' = [job EXCEPT !.status = COMPLETED]
  /\ video_status' = COMPLETED
  /\ previous' = Append(previous, COMPLETED)
  /\ UNCHANGED <<detector, ret, call, events, now, stream, phase, fed, started,
                 video, assembler, pure, queued, responses, highlights>>

\* run_ocr_processing ends in its except branch (detection, clip extraction
\* or a commit raised) and the commit of the branch stores FAILED in both rows
ProcessingFailed ==
  /\ executions # <<>>
  /\ executions' = Tail(executions)
  /\ job' = [job EXCEPT !.status = FAILED, !.retry_count = @ + 1]
  /\ video_status' = FAILED
  /\ previous' = Append(previous, FAILED)
  /\ UNCHANGED <<detector, ret, call, events, now, stream, phase, fed, started,
                 video, assembler, pure, queued, responses, highlights>>

\* run_ocr_processing ends in its except branch and the commit of the branch
\* raises too: the error is logged, the session rolled back, and the rows keep
\* what the last successful commit stored
ProcessingFailedUnrecorded ==
  /\ executions # <<>>
  /\ executions' = Tail(executions)
  /\ previous' = Append(previous, FAILED)
  /\ UNCHANGED <<detector, ret, call, events, now, stream, phase, fed, started,
                 video, assembler, pure, job, queued, responses, video_status,
                 highlights>>

NextJobs ==
  \/ trigger_ocr_job
  \/ retry_failed_job
  \/ StartProcessing
  \/ ProcessingCompleted
  \/ ProcessingFailed
  \/ ProcessingFailedUnrecorded
SpecJobs == InitJobs /\ [][NextJobs]_vars

(* ---------------- properties ---------------- *)
\* the last call moved the baseline from call.before to last_stable_score
BaselineMoved == call.before # NoScore /\ last_stable_score # call.before
RunsDiff == last_stable_score.runs - call.before.runs
WicketsDiff == last_stable_score.wickets - call.before.wickets
IsEvent(e, type, old, new) ==
  e.type = type /\ e.score_before = Repr(old) /\ e.score_after = Repr(new)

\* C3: any two consecutive emitted events are at least COOLDOWN_SECONDS
\* apart, and an event is returned only when the cooldown since the previous
\* one has elapsed.
CooldownRespected ==
  /\ \A i \in 1..(Len(events) - 1) :
       events[i + 1].timestamp - events[i].timestamp >= COOLDOWN_SECONDS
  /\ (ret # NoEvent /\ Len(events) >= 2)
       => now - events[Len(events) - 1].timestamp >= COOLDOWN_SECONDS

CooldownRespectedWitness ==
  /\ stream = TwoFoursScript
  /\ Len(events) = 2
  /\ events[1].score_after = "104/2"
  /\ events[2].score_after = "108/2"
  /\ events[2].timestamp - events[1].timestamp = COOLDOWN_SECONDS

\* C4: in the stream 224/0, 257/1, 261/1, with 224/0 observed at least
\* HISTORY_SIZE times, the jump to 257/1 emits no event and makes 257/1 the
\* baseline, and the only event ever emitted is a FOUR from 257/1 to 261/1.
HugeJumpSilent ==
  (stream = HugeJumpScript /\ fed[1] >= HISTORY_SIZE)
    => /\ phase = 2 => events = <<>>
       /\ (phase = 2 /\ fed[1] >= HISTORY_SIZE /\ fed[2] >= HISTORY_SIZE)
            => last_stable_score = ScoreState(257, 1)
       /\ Len(events) <= 1
       /\ \A i \in 1..Len(events) :
            IsEvent(events[i], "FOUR", ScoreState(257, 1), ScoreState(261, 1))

\* C8: in the stream 52/1, 52/0, 52/1, with 52/1 observed at least
\* HISTORY_SIZE times at first, the return of the wicket count to its earlier
\* value emits no event, however long the drop lasted.
WicketReturnSilent ==
  (stream = WicketDropScript /\ fed[1] >= HISTORY_SIZE /\ phase = 3)
    => (ret = NoEvent /\ events = <<>>)

\* C9: after at least HISTORY_SIZE observations of r/w, the fifth observation
\* of (r+4)/w has produced exactly one event in all: a FOUR from r/w to
\* (r+4)/w, timestamped no earlier than the first observation of (r+4)/w;
\* at no point of the stream are there more events.
SimpleFour ==
  stream \in FourScripts
    => /\ Len(events) <= 1
       /\ (phase = 2 /\ fed[1] >= HISTORY_SIZE /\ fed[2] = HISTORY_SIZE)
            => /\ Len(events) = 1
               /\ IsEvent(events[1], "FOUR", stream[1], stream[2])
               /\ events[1].timestamp >= started

SimpleFourWitness ==
  /\ stream[1] = ScoreState(396, 10)
  /\ phase = 2
  /\ fed = <<HISTORY_SIZE, HISTORY_SIZE>>
  /\ Len(events) = 1
  /\ events[1].type = "FOUR"
  /\ events[1].score_before = "396/10"
  /\ events[1].score_after = "400/10"

\* C5: while the lower score of the innings stream is being observed no
\* event is emitted; the baseline is replaced by the lower score only after
\* it has been observed for more than RESET_PERSISTENCE_SECONDS, and it is
\* replaced at the first observation more than RESET_PERSISTENCE_SECONDS
\* after the smoothed score became the lower one; if the score rises by 4
\* after that, the third observation of the rise has produced exactly one
\* event, a FOUR from the lower score, and no other event is ever emitted.
InningsReset ==
  (stream = InningsScript /\ fed[1] >= HISTORY_SIZE)
    => /\ phase <= 2 => events = <<>>
       /\ (phase = 2 /\ last_stable_score = stream[2])
            => now - started > RESET_PERSISTENCE_SECONDS
       /\ (phase = 2 /\ fed[2] >= 3 /\ last_stable_score # stream[2])
            => /\ last_stable_score = stream[1]
               /\ reset_candidate = stream[2]
               /\ now - reset_candidate_time <= RESET_PERSISTENCE_SECONDS
       /\ (phase = 3 /\ last_stable_score = stream[2])
            => (events = <<>> /\ fed[3] < 3)
       /\ \A i \in 1..Len(events) :
            IsEvent(events[i], "FOUR", stream[2], stream[3])
       /\ Len(events) <= 1
       /\ (phase = 3 /\ call.before = stream[2] /\ last_stable_score # stream[2])
            => (Len(events) = 1 /\ ret = events[1])

InningsResetWitness ==
  /\ stream = InningsScript
  /\ fed[1] >= HISTORY_SIZE
  /\ phase = 3
  /\ fed[3] >= HISTORY_SIZE
  /\ last_stable_score = ScoreState(4, 0)
  /\ Len(events) = 1
  /\ events[1].type = "FOUR"
  /\ events[1].score_before = "0/0"
  /\ events[1].score_after = "4/0"

\* C6: in the stream 50/0, 5/0, 50/0, 5/0, where the smoothed score went back
\* to 50/0 in between, the baseline is replaced by 5/0 only after 5/0 has
\* been observed again for more than RESET_PERSISTENCE_SECONDS.
ResetContinuous ==
  (stream = ReappearScript /\ fed[1] >= HISTORY_SIZE /\ phase = 4
     /\ fed[3] >= HISTORY_SIZE /\ last_stable_score = stream[4])
    => now - started > RESET_PERSISTENCE_SECONDS

\* C7 as stated: after HISTORY_SIZE observations of the baseline, a run of
\* alternating observations of any length emits no event and leaves the
\* baseline, and a later change by 4 sustained for HISTORY_SIZE observations
\* is reported as a FOUR from the baseline.
OscillationAbsorbed ==
  fed[1] >= HISTORY_SIZE
    => /\ phase = 2 => (events = <<>> /\ last_stable_score = stream[1])
       /\ (phase = 3 /\ fed[3] >= HISTORY_SIZE)
            => \E i \in 1..Len(events) :
                 IsEvent(events[i], "FOUR", stream[1], stream[3])

\* the deviating runs lie strictly between the baseline and the new score
DeviationBetween ==
  stream[1].runs < stream[2].runs /\ stream[2].runs < stream[3].runs

\* C7 amended: a run of at most 4 alternating observations emits no event
\* and leaves the baseline; after such a run a change by 4 sustained for
\* HISTORY_SIZE observations has produced exactly one event, a FOUR from the
\* baseline, unless the deviating runs lie strictly between the two scores.
ShortOscillationAbsorbed ==
  (fed[1] >= HISTORY_SIZE /\ phase >= 2 /\ fed[2] <= 4)
    => /\ phase = 2 => (events = <<>> /\ last_stable_score = stream[1])
       /\ (phase = 3 /\ fed[3] >= HISTORY_SIZE /\ ~DeviationBetween)
            => /\ Len(events) = 1
               /\ IsEvent(events[1], "FOUR", stream[1], stream[3])
               /\ last_stable_score = stream[3]

ShortOscillationAbsorbedWitness ==
  /\ stream = <<ScoreState(52, 0), ScoreState(5, 0), ScoreState(56, 0)>>
  /\ fed[1] >= HISTORY_SIZE
  /\ phase = 3
  /\ fed[2] = 4
  /\ fed[3] >= HISTORY_SIZE
  /\ Len(events) = 1
  /\ events[1].type = "FOUR"
  /\ events[1].score_before = "52/0"
  /\ events[1].score_after = "56/0"

BoundaryClassification ==
  (BaselineMoved /\ WicketsDiff # 1 /\ RunsDiff >= 0)
    => /\ (RunsDiff \in {5, 6, 7}) <=> IsEvent(ret, "SIX", call.before, last_stable_score)
       /\ (RunsDiff = 4) <=> IsEvent(ret, "FOUR", call.before, last_stable_score)
       /\ (RunsDiff \notin {4, 5, 6, 7}) <=> (ret = NoEvent)

BoundaryClassificationWitness ==
  /\ call.before = ScoreState(10, 1)
  /\ last_stable_score = ScoreState(17, 1)
  /\ ret.type = "SIX"
  /\ ret.score_after = "17/1"

\* C10: every emitted event has different scores before and after, and a
\* stream that repeats one score emits no event at all.
EventChangesScore ==
  /\ \A i \in 1..Len(events) : events[i].score_before # events[i].score_after
  /\ ret # NoEvent => ret.score_before # ret.score_after
  /\ stream[1] = stream[2] => events = <<>>

EventChangesScoreWitness ==
  /\ ret.type = "WICKET"
  /\ ret.score_before = "10/1"
  /\ ret.score_after = "10/2"

\* C11: a returned WICKET goes from the baseline before the call to the new
\* baseline, both with a wicket count of at least 0 and exactly one apart;
\* when the baseline moves to a wicket count 2 or more higher, the call
\* returns no WICKET.
WicketByOne ==
  /\ ret.type = "WICKET"
       => /\ IsEvent(ret, "WICKET", call.before, last_stable_score)
          /\ call.before.wickets >= 0
          /\ last_stable_score.wickets >= 0
          /\ WicketsDiff = 1
  /\ (BaselineMoved /\ WicketsDiff >= 2) => ret.type # "WICKET"

WicketByOneWitness ==
  /\ call.before = ScoreState(10, 1)
  /\ last_stable_score = ScoreState(16, 2)
  /\ ret.type = "WICKET"
  /\ ret.score_before = "10/1"
  /\ ret.score_after = "16/2"

\* C13: a call of detect with an absent or implausible score, with any
\* overs, returns no event and leaves every field of the detector unchanged.
UnusableIgnored ==
  [][ObserveUnusable
       => /\ ret' = NoEvent
          /\ events' = events
          /\ UNCHANGED <<runs_history, wickets_history, last_stable_score,
                         last_over, last_event_time, reset_candidate,
                         reset_candidate_time>>]_vars

UnusableIgnoredWitness ==
  /\ call.branch = "ignored"
  /\ ret = NoEvent
  /\ last_stable_score = Base
  /\ last_over # NoOvers
  /\ Len(events) = 1

\* C15: a call of detect with a usable score and with overs that do not
\* strictly exceed last_over returns no event, appends the runs and the
\* wickets of the score to the histories and changes no other field.
NewBallGate ==
  [][\A i \in 1..2, dt \in Deltas, overs \in OversDomain :
       (/\ last_over # NoOvers
        /\ ~(overs[1] > last_over[1]
              \/ (overs[1] = last_over[1] /\ overs[2] > last_over[2]))
        /\ now + dt <= MaxTime
        /\ Detect(stream[i], now + dt, overs))
         => /\ ret' = NoEvent
            /\ events' = events
            /\ runs_history' = DequeAppend(runs_history, stream[i].runs)
            /\ wickets_history' = DequeAppend(wickets_history, stream[i].wickets)
            /\ UNCHANGED <<last_stable_score, last_over, last_event_time,
                           reset_candidate, reset_candidate_time>>]_vars

\* a same-ball observation of a window full of a score 4 above the baseline
NewBallGateWitness ==
  /\ call.branch = "same_ball"
  /\ ret = NoEvent
  /\ events = <<>>
  /\ last_stable_score = Base
  /\ runs_history = <<14, 14, 14, 14, 14>>
  /\ last_over = <<0, 2>>
\* C12: the timestamps of the events that process_video collects, whose
\* observations have strictly increasing timestamps, are strictly increasing
\* in emission order.
EventTimesIncrease ==
  \A i \in 1..(Len(events) - 1) : events[i].timestamp < events[i + 1].timestamp

EventTimesIncreaseWitness ==
  /\ pc = "frames"
  /\ Len(events) = 2
  /\ events[1].type = "FOUR"
  /\ events[2].type = "WICKET"
  /\ events[1].timestamp < events[2].timestamp
  /\ stats.fail = MaxFail

\* C14: a sampled frame whose OCR yields no score causes no call of detect,
\* no append to the histories and no progress of the confirmation count.
FailedFrameInert ==
  [][ReadFail
       => /\ now' = now
          /\ UNCHANGED <<runs_history, wickets_history, candidate_count>>]_vars

\* C16: after a KeyboardInterrupt in the frame loop no supercut is created,
\* and the clips that were extracted are on disk.
InterruptedNoSupercut ==
  interrupted
    => /\ supercut = NoPath
       /\ SupercutPath \notin DOMAIN files
       /\ \A i \in 1..Len(clips) : clips[i] \in DOMAIN files
IsTrim(q) == q.tool = "trim"
Trims == SelectSeq(requests, IsTrim)
Succeeded(q) == q.returncode = 0
Extracted == pc \in {"supercut", "done"}

\* C17: when extract_clips has returned, the media tool was invoked once
\* for every event, in event order, whatever the exit status of the earlier
\* invocations, and at any time the list of clips holds exactly the outputs
\* of the invocations that exited with 0, in that order.
ClipFailureIsolated ==
  /\ Extracted
       => /\ Len(Trims) = Len(events)
          /\ \A i \in 1..Len(Trims) :
               /\ Trims[i].output = ClipPath(i, events[i])
               /\ Trims[i].start = Max(0, events[i].timestamp - args.before)
  /\ LET good == SelectSeq(Trims, Succeeded)
     IN  clips = [k \in 1..Len(good) |-> good[k].output]

ClipFailureIsolatedWitness ==
  /\ pc = "supercut"
  /\ Len(events) = 3
  /\ Len(requests) = 3
  /\ requests[1].returncode = 0
  /\ requests[2].returncode = 1
  /\ requests[3].returncode = 0
  /\ Len(clips) = 2
  /\ clips[2] = requests[3].output

\* the index of the k-th event whose clip was extracted
KthExtracted(k) ==
  CHOOSE j \in 1..Len(Trims) :
    /\ Trims[j].returncode = 0
    /\ Cardinality({m \in 1..(j - 1) : Trims[m].returncode = 0}) = k - 1

\* C18: the clip requested for the i-th event has the index i, in three
\* digits, in its file name, also after failures, and the list given to the
\* concat invocation names the extracted clips in increasing event order.
ClipOrder ==
  /\ \A i \in 1..Len(Trims) :
       Trims[i].output =
         "trimmed/match_clip_00" \o ToString(i) \o "_" \o events[i].type
           \o "_" \o ToString(events[i].timestamp) \o ".mp4"
  /\ \A n \in 1..Len(requests) :
       requests[n].tool = "concat"
         => /\ Len(requests[n].list)
                 = Cardinality({j \in 1..Len(Trims) : Trims[j].returncode = 0})
            /\ \A k \in 1..Len(requests[n].list) :
                 requests[n].list[k]
                   = "file '/work/" \o Trims[KthExtracted(k)].output \o "'"

ClipOrderWitness ==
  /\ pc = "done"
  /\ Len(requests) = 4
  /\ requests[1].returncode = 1
  /\ requests[2].output = "trimmed/match_clip_002_FOUR_13.mp4"
  /\ requests[3].output = "trimmed/match_clip_003_WICKET_30.mp4"
  /\ requests[4].tool = "concat"
  /\ requests[4].list = <<"file '/work/trimmed/match_clip_002_FOUR_13.mp4'",
                          "file '/work/trimmed/match_clip_003_WICKET_30.mp4'">>

\* C19: a call of create_supercut whose concat invocation exits non-zero
\* returns no path and leaves every clip on disk with its content; a call
\* with an empty list of clips returns no path, invokes nothing and writes
\* nothing.
ConcatFailureKeepsClips ==
  [][(pc = "supercut" /\ pc' = "done")
       => /\ clips = <<>>
               => (supercut' = NoPath /\ requests' = requests /\ files' = files)
          /\ (clips # <<>> /\ requests'[Len(requests')].returncode # 0)
               => /\ supercut' = NoPath
                  /\ clips' = clips
                  /\ \A i \in 1..Len(clips) :
                       /\ clips[i] \in DOMAIN files'
                       /\ files'[clips[i]] = files[clips[i]]
                  /\ ConcatFile \notin DOMAIN files']_vars

ConcatFailureKeepsClipsWitness ==
  /\ pc = "done"
  /\ Len(clips) = 2
  /\ requests[Len(requests)].tool = "concat"
  /\ requests[Len(requests)].returncode = 1
  /\ supercut = NoPath
  /\ \A i \in 1..Len(clips) : clips[i] \in DOMAIN files

\* C20: the clip requested for an event at ts >= 0 with paddings before and
\* after starts at max(0, ts - before) and lasts before + after, so the
\* start is not negative and the window contains ts.
ClipWindow ==
  \A i \in 1..Len(Trims) :
    LET ts == events[i].timestamp
        start == Trims[i].start
        duration == Trims[i].duration
    IN  /\ start = (IF ts - args.before > 0 THEN ts - args.before ELSE 0)
        /\ duration = args.before + args.after
        /\ start >= 0
        /\ start <= ts
        /\ ts <= start + duration

ClipWindowWitness ==
  /\ args.before = 12
  /\ args.after = 5
  /\ Len(requests) >= 2
  /\ events[1].timestamp = 3
  /\ requests[1].start = 0
  /\ requests[1].duration = 17
  /\ events[2].timestamp = 13
  /\ requests[2].start = 1
\* the last call of detect got past the plausibility, new-ball and cooldown
\* gates
PassedGates == call.branch \notin {"none", "ignored", "same_ball", "cooldown"}

WarmUp ==
  /\ Len(runs_history) < HISTORY_SIZE
       => (events = <<>> /\ last_stable_score = NoScore)
  /\ last_stable_score = NoScore => events = <<>>
  /\ (PassedGates /\ call.before = NoScore /\ Len(runs_history) = HISTORY_SIZE)
       => /\ ret = NoEvent
          /\ events = <<>>
          /\ last_stable_score.runs = Sorted(runs_history)[3]
          /\ LET valid == SelectSeq(wickets_history, IsValidWicket)
             IN  last_stable_score.wickets
                   = IF valid = <<>> THEN 0
                     ELSE Sorted(valid)[(Len(valid) \div 2) + 1]

\* the first baseline comes out of a window that mixes two scores
WarmUpWitness ==
  /\ call.branch = "initial"
  /\ last_stable_score = ScoreState(14, 1)
  /\ runs_history = <<10, 14, 10, 14, 14>>
  /\ wickets_history = <<1, 0 - 1, 1, 0 - 1, 0 - 1>>
  /\ events = <<>>
\* the k-th score of the script was read on one sampled frame only, and no
\* frame of the video failed
SingleFrame(k) == k < phase /\ fed[k] = 1 /\ stats.fail = 0

TrimBoundaries(reqs) ==
  LET trims == SelectSeq(reqs, IsTrim)
  IN  [i \in 1..Len(trims) |-> <<trims[i].start, trims[i].duration>>]

\* C21: a run of the pipeline that follows another run over the same readings
\* with the same arguments starts from a detector in its initial state, and
\* when it is done it has emitted the same events (type, timestamp,
\* score_before, score_after) and asked for the same clip boundaries as the
\* run before
Determinism ==
  /\ (pc = "frames" /\ frame_count = 0) => InitDetector
  /\ (pc = "done" /\ previous # <<>>) =>
       \A i \in 1..Len(previous) :
         /\ previous[i].events = events
         /\ TrimBoundaries(previous[i].requests) = TrimBoundaries(requests)

DeterminismWitness ==
  /\ pc = "done"
  /\ Len(previous) = 1
  /\ Len(events) = 1
  /\ events[1].type = "FOUR"
  /\ events[1].timestamp = 10
  /\ TrimBoundaries(requests) = <<<<0, 17>>>>
  /\ previous[1].events = events

\* parse_score returned for the arguments
Parsed == result # NoResult /\ arguments.function = "parse_score"

\* C23: for every runs r in 0..999, every wickets w in 0..10 and every
\* prev_wickets, known or not, parse_score of the text "r/w" and of the text
\* "r w" returns ScoreState(r, w)
ParserRoundTrip ==
  Parsed =>
    \A k \in 2..(Len(arguments.text) - 1) :
      LET text == arguments.text
          runs_text == SubSeq(text, 1, k - 1)
          wickets_text == SubSeq(text, k + 1, Len(text))
      IN  (/\ <<text[k]>> \in Separators
           /\ AllDigits(runs_text) /\ AllDigits(wickets_text)
           /\ ToInt(runs_text) \in ResolvedRuns
           /\ ToInt(wickets_text) \in ResolvedWickets
           /\ runs_text = Decimal(ToInt(runs_text))
           /\ wickets_text = Decimal(ToInt(wickets_text))
           /\ text[k] = "/" =>
                text = ReprChars(ScoreState(ToInt(runs_text), ToInt(wickets_text))))
          => result.value = ScoreState(ToInt(runs_text), ToInt(wickets_text))

ParserRoundTripWitness ==
  /\ Parsed
  /\ arguments.text = <<"1", "4", "5", " ", "1", "0">>
  /\ arguments.prev_wickets = 0
  /\ result.value = ScoreState(145, 10)

\* C22: for a text of 4 or more digits and nothing else, parse_score returns
\* a score only if prev_wickets is known, the last digit is prev_wickets or
\* prev_wickets + 1 and the digits before it are at most 3; the score is then
\* these digits as the runs and the last digit as the wickets. In every
\* other case it returns None.
LastDigitGate ==
  (Parsed /\ Len(arguments.text) >= 4 /\ AllDigits(arguments.text)) =>
    LET text == arguments.text
        prev == arguments.prev_wickets
        last == DigitValue(text[Len(text)])
        rest == SubSeq(text, 1, Len(text) - 1)
    IN  IF prev # NoWickets /\ last \in {prev, prev + 1} /\ Len(rest) <= 3
        THEN result.value = ScoreState(ToInt(rest), last)
        ELSE result.value = NoScore

LastDigitGateWitness ==
  /\ Parsed
  /\ arguments.text = <<"1", "4", "5", "3">>
  /\ arguments.prev_wickets = 3
  /\ result.value = ScoreState(145, 3)

\* C24: for every frame size and every configured rectangle (x, y, w, h),
\* frames smaller than the rectangle included, the origin of the crop after
\* the clamping has 0 <= x, 0 <= y, x + w <= frame width and
\* y + h <= frame height
RoiInsideFrame ==
  (result # NoResult /\ arguments.function = "_extract_region") =>
    /\ 0 <= result.x
    /\ 0 <= result.y
    /\ result.x + arguments.w <= arguments.width
    /\ result.y + arguments.h <= arguments.height

\* round(q / 4) of a number given in quarters, halves going to the even side
RoundQuarters(q) ==
  LET floor == q \div 4
      rest == q % 4
  IN  IF rest < 2 THEN floor
      ELSE IF rest > 2 THEN floor + 1
      ELSE IF floor % 2 = 0 THEN floor ELSE floor + 1

\* C25: process_video handles exactly the frames whose index is a multiple
\* of frame_skip = max(1, round(fps * sample_interval)), each with the
\* timestamp frame_index / fps, for every fps > 0 and every interval > 0
SamplingSchedule ==
  (arguments.function = "process_video" /\ pc = "returned") =>
    LET skip == Max(1, RoundQuarters(arguments.fps_halves
                                       * arguments.interval_halves))
        due == {n \in 0..(arguments.total_frames - 1) : n % skip = 0}
    IN  /\ {Handled[i].index : i \in 1..Len(Handled)} = due
        /\ Len(Handled) = Cardinality(due)
        /\ \A i \in 1..Len(Handled) :
             Handled[i].timestamp.num * arguments.fps_halves
               = 2 * Handled[i].index * Handled[i].timestamp.den

\* C26: for any interleaving of trigger requests, retry requests and
\* background executions, two executions of run_ocr_processing for the same
\* video are never in progress at the same time, and a trigger for a video
\* that is being processed is rejected
OneRunPerVideo ==
  /\ Len(executions) <= 1
  /\ \A i \in 1..Len(responses) :
       (responses[i].route = "trigger" /\ responses[i].seen = PROCESSING)
         => responses[i].code = 409

\* the retry requests accepted so far
AcceptedRetries ==
  Len(SelectSeq(responses, LAMBDA r : r.route = "retry" /\ r.code = 200))

AllRunsFailed == \A i \in 1..Len(previous) : previous[i] = FAILED

\* the step is a retry request
RetryRequest ==
  /\ Len(responses') = Len(responses) + 1
  /\ responses'[Len(responses')].route = "retry"

\* C27: for a job whose every processing run fails, the first three retry
\* requests are accepted (the job goes back to PENDING and processing is
\* started again) and the fourth is the first that is rejected with
\* 'Maximum retry attempts (3) exceeded'; a retry for a job that is not in
\* FAILED status is rejected and changes nothing
ThreeRetries ==
  [][RetryRequest =>
       LET answer == responses'[Len(responses')]
       IN  IF job.status # FAILED
           THEN answer.code # 200 /\ job' = job /\ queued' = queued
           ELSE AllRunsFailed =>
                  IF AcceptedRetries < MAX_RETRY_COUNT
                  THEN /\ answer.code = 200
                       /\ job'.status = PENDING
                       /\ queued' = queued + 1
                  ELSE /\ answer.detail = MaxRetriesExceeded
                       /\ job' = job /\ queued' = queued]_vars

\* the scores an observation of the stream can carry
Observable == {stream[i] : i \in 1..Len(stream)}

\* C31: a plausible observation that arrives less than COOLDOWN_SECONDS after
\* the last event appends its runs and wickets to the histories, returns no
\* event and leaves last_stable_score, last_event_time and reset_candidate
\* as they were, so that the baseline a later observation is compared with
\* is the one from before the cooldown
CooldownGate ==
  [][(call'.branch \notin {"none", "ignored"}
        /\ now' - last_event_time < COOLDOWN_SECONDS) =>
       /\ \E score \in Observable :
            /\ runs_history' = DequeAppend(runs_history, score.runs)
            /\ wickets_history' = DequeAppend(wickets_history, score.wickets)
       /\ ret' = NoEvent
       /\ events' = events
       /\ last_stable_score' = last_stable_score
       /\ last_event_time' = last_event_time
       /\ reset_candidate' = reset_candidate]_vars

\* a FOUR 10/1 -> 14/1 at 0, then three observations of 10/1 inside the
\* cooldown: the median is 10 again, the baseline is still 14/1
CooldownGateWitness ==
  /\ call.branch = "cooldown"
  /\ now = 0
  /\ last_event_time = 0
  /\ Len(events) = 1
  /\ events[1].type = "FOUR"
  /\ runs_history = <<14, 14, 10, 10, 10>>
  /\ last_stable_score = ScoreState(14, 1)
  /\ reset_candidate = NoScore

\* the texts of the resolved scores: runs/wickets within the plausible bounds
ResolvedReprs ==
  {Repr(ScoreState(r, w)) :
     r \in 0..MAX_PLAUSIBLE_RUNS, w \in 0..MAX_PLAUSIBLE_WICKETS}

\* C32: in every reachable state of the detector last_stable_score is unset
\* or has 0 <= runs <= 400 and 0 <= wickets <= 10, never the runs-only
\* marker, and score_before and score_after of every event are resolved
\* runs/wickets pairs
StableResolved ==
  /\ \/ last_stable_score = NoScore
     \/ /\ 0 <= last_stable_score.runs
        /\ last_stable_score.runs <= MAX_PLAUSIBLE_RUNS
        /\ 0 <= last_stable_score.wickets
        /\ last_stable_score.wickets <= MAX_PLAUSIBLE_WICKETS
  /\ \A i \in 1..Len(events) :
       /\ events[i].score_before \in ResolvedReprs
       /\ events[i].score_after \in ResolvedReprs

\* the baseline 10/1 followed by three runs-only readings of 14: the FOUR
\* goes from 10/1 to 14/1
StableResolvedWitness ==
  /\ wickets_history = <<1, 1, 0 - 1, 0 - 1, 0 - 1>>
  /\ last_stable_score = ScoreState(14, 1)
  /\ Len(events) = 1
  /\ events[1].score_before = "10/1"
  /\ events[1].score_after = "14/1"

\* a is later than b in the (over, ball) order
LaterBall(a, b) == a[1] > b[1] \/ (a[1] = b[1] /\ a[2] > b[2])

\* C33: across any sequence of detect() calls last_over changes only from
\* unset to a value or to a value that is strictly greater in the
\* lexicographic order of (over, ball)
LastOverMonotone ==
  [][last_over' # last_over =>
       /\ last_over' # NoOvers
       /\ last_over = NoOvers \/ LaterBall(last_over', last_over)]_vars

\* 0.5 then 1.0 were accepted, the unread overs and 0.6 left last_over alone
LastOverMonotoneWitness ==
  /\ stream = MixedOversScript
  /\ phase = 4
  /\ fed[4] >= 2
  /\ last_over = <<1, 0>>
  /\ call.branch = "same_ball"

\* C34: in the stream with overs where the second innings starts at 0.1
\* after 19.5 with the score 0/0, the lower score becomes last_stable_score
\* once it has been observed for more than RESET_PERSISTENCE_SECONDS, the
\* rise to 4/0 that follows is reported as a FOUR from 0/0, and the detector
\* does not keep the baseline of the first innings
OversInningsReset ==
  (stream = OversInningsScript /\ fed[1] >= HISTORY_SIZE) =>
    /\ (phase = 4 /\ fed[3] >= HISTORY_SIZE
          /\ now - started > RESET_PERSISTENCE_SECONDS)
         => last_stable_score = stream[4].score
    /\ (call.before = stream[4].score /\ last_stable_score = stream[5].score)
         => /\ events # <<>>
            /\ ret = events[Len(events)]
            /\ IsEvent(ret, "FOUR", stream[4].score, stream[5].score)
    /\ (phase = 6 /\ fed[5] >= HISTORY_SIZE
          /\ now - started > RESET_PERSISTENCE_SECONDS)
         => last_stable_score = stream[6].score

\* C35: in the stream where every observation carries overs and the score
\* rises by 4 on the ball 0.3, once the new score has been observed for
\* HISTORY_SIZE further frames of that ball a FOUR 10/1 -> 14/1 has been
\* emitted; the first frame of the next ball emits nothing
FourOnItsBall ==
  (stream = FourOnBallScript /\ fed[1] >= HISTORY_SIZE
     /\ phase >= 3 /\ fed[3] >= HISTORY_SIZE + 1) =>
    /\ Len(events) = 1
    /\ IsEvent(events[1], "FOUR", stream[2].score, stream[3].score)
    /\ (phase = 4 /\ fed[4] = 1) => ret = NoEvent

\* the wicket counts of the observations of the stream that have one
KnownWickets == {stream[i].wickets : i \in {j \in 1..Len(stream) : stream[j].wickets >= 0}}

\* C36: if every observation of the stream whose wickets are known carries
\* the same wicket count, no WICKET event is emitted, whatever runs-only
\* observations are interleaved and however many of them fill the history
RunsOnlyNoWicket ==
  Cardinality(KnownWickets) <= 1 =>
    \A i \in 1..Len(events) : events[i].type # "WICKET"

\* the invocation of the media tool that was to extract the clip of event i
TrimOf(i) == requests[i]

\* C37: once run_ocr_processing has stored the HighlightEvent rows, row i
\* carries the type and the timestamp of event i, a clip_path that is set is
\* the path of the clip that was extracted for event i, and the row of an
\* event whose extraction failed has no clip_path
ClipOfItsEvent ==
  pc = "saved" =>
    /\ Len(highlights) = Len(events)
    /\ \A i \in 1..Len(events) :
         /\ highlights[i].event_type = events[i].type
         /\ highlights[i].timestamp_seconds = events[i].timestamp
         /\ highlights[i].clip_path # NoPath =>
              /\ highlights[i].clip_path = ClipPath(i, events[i])
              /\ TrimOf(i).returncode = 0
         /\ TrimOf(i).returncode # 0 => highlights[i].clip_path = NoPath

\* every run_ocr_processing that started has ended and none is waiting
RunsEnded == previous # <<>> /\ executions = <<>> /\ queued = 0

\* C38: once every run_ocr_processing that set the job to PROCESSING has
\* ended, whether it ended normally or in its except branch, the job is
\* COMPLETED or FAILED, never PROCESSING, and the video has the status of
\* the job
JobSettled ==
  RunsEnded =>
    /\ job.status \in {COMPLETED, FAILED}
    /\ video_status = job.status

====
